---- MODULE Spec2Model ----
(***************************************************************************)
(* Jora Mall: order creation, stock reservation, gateway payment           *)
(* verification and wallet top-up, modelled from the backend handlers.     *)
(*                                                                         *)
(* Money is counted in thousandths of a naira (1000 = NGN 1.00), so that   *)
(* Number.toFixed(2) is a real rounding.  Gateway amounts are in kobo.     *)
(***************************************************************************)
EXTENDS Integers, Sequences, FiniteSets, TLC

\* ------------------------------------------------------------------ bounds
MaxStock == 1
MaxQty == 1
MaxItems == 2
MaxOrders == 2
MaxRefs == 2
MaxPayRefs == 1
MaxInflight == 2
MaxCartQty == 2
MaxCartStock == 3

\* ------------------------------------------------------------ input sets
Shoppers == {"u1", "u2"}
Products == {"p1", "p2"}
NoSuchProduct == "px"
ProductIds == Products \cup {NoSuchProduct}
PriceInputs == {1000, 2004}
TotalInputs == {0, 1000, 3000}
AddrInputs == {"complete", "noEmail", "noCity"}
CheckoutUsers == {"u1"}
MethodInputs == {"paystack", "wallet"}
ItemSet ==
  {it \in [product : ProductIds, quantity : 1..MaxQty, price : PriceInputs] :
     it.product = NoSuchProduct => (it.quantity = 1 /\ it.price = 1000)}
ItemSeqs == UNION {[1..n -> ItemSet] : n \in 0..MaxItems}
\* Gateway references are numbered from 1; the wallet sentinel string and the
\* null reference are two values outside that range.
WALLET_PAYMENT == -1
NoRef == 0
AmountInputs == {0, 1000, 3000}
KoboInputs == {0, 50, 100}
StatusInputs == {"pending", "completed", "shipped", "delivered", "cancelled", "bogus"}
Admin == "adm"
role == [u \in Shoppers \cup {Admin} |-> IF u = Admin THEN "admin" ELSE "user"]

VARIABLES products, users, orders, gateway, last, reqs, carts, client

vars == <<products, users, orders, gateway, last, reqs, carts, client>>

\* ------------------------------------------------------------- helpers
\* Number.prototype.toFixed(2): the value rounded to whole cents (the
\* decimal string is identified with its number of cents).
toFixed2(x) == (x + 5) \div 10

\* Cart.findOne found no document for the user.
NoCart == [exists |-> FALSE, items |-> <<>>]

\* The last event: handler (or gateway step), caller, HTTP status, error kind and the
\* reference or order id the request named (0 when it names none).
Resp(op, u, code, err, arg) ==
  [op |-> op, user |-> u, code |-> code, err |-> err, arg |-> arg]

\* No unique index on the reference.
RefTakenNever(ords, ref) == FALSE

\* The unique sparse index on Order.paystackReference: a non-null reference
\* may be stored on at most one order.
RefTaken(ords, ref) == ref # NoRef /\ \E i \in 1..Len(ords) : ords[i].paystackReference = ref

\* Required fields of shippingAddressSchema.
AddrValid(addr) == addr = "complete"

\* ------------------------------------------------------- models/User.js
\* Passwords and hashes are numbers: a hash is the password moved by HashBase,
\* so a hash of a hash is told from a hash.
HashBase == 100

\* The password each shopper registered with.
OriginalPassword(u) == IF u = "u1" THEN 1 ELSE 2

\* bcrypt.hash(password, salt).
bcryptHash(pw) == pw + HashBase

\* UserSchema.methods.matchPassword: bcrypt.compare(entered, this.password).
matchPassword(user, entered) == bcryptHash(entered) = user.password

\* A hook that hashes on every save.
preSaveAlwaysHashes(password, modified) == bcryptHash(password)

\* UserSchema.pre('save'): nothing when the password path is not modified,
\* nothing when the value already is a hash, else the hash.
preSave(password, modified) ==
  IF ~modified THEN password
  ELSE IF password >= HashBase THEN password
  ELSE bcryptHash(password)

\* user.save() of a document loaded by findById (password not selected)
\* whose wallet fields were assigned: the pre-save hook, then the write.
userSave(stored, balance, txns) ==
  [walletBalance |-> balance, walletTransactions |-> txns,
   password |-> preSave(stored.password, FALSE)]

\* ---------------------------------------------- controller createOrder
\* The item loop of createOrder: check existence, stock and price of the
\* item, then decrement and save the product, before the next item is read.
RECURSIVE checkAndReduce(_, _, _)
checkAndReduce(prods, items, i) ==
  IF i > Len(items) THEN [products |-> prods, code |-> 0, err |-> "none"]
  ELSE LET item == items[i] IN
    IF item.product \notin DOMAIN prods
      THEN [products |-> prods, code |-> 404, err |-> "NotFound"]
    ELSE IF prods[item.product].stock < item.quantity
      THEN [products |-> prods, code |-> 400, err |-> "OutOfStock"]
    ELSE IF toFixed2(prods[item.product].price) # toFixed2(item.price)
      THEN [products |-> prods, code |-> 400, err |-> "PriceMismatch"]
    ELSE checkAndReduce([prods EXCEPT ![item.product].stock = @ - item.quantity], items, i + 1)

NewOrder(u, items, total, addr, method, payStatus, status, ref) ==
  [user |-> u, items |-> items, totalAmount |-> total, shippingAddress |-> addr,
   paymentMethod |-> method, paymentStatus |-> payStatus, status |-> status,
   paystackReference |-> ref]

\* The comparison written the wrong way round.
insufficientFundsReversed(balance, total) == total < balance

\* The wallet guard: user.walletBalance < totalAmount.
insufficientFunds(balance, total) == balance < total

\* Result of the whole handler on the given stored state.
createOrderResult(prods, usrs, ords, u, items, total, addr, method) ==
  LET keep(code, err) == [products |-> prods, users |-> usrs, orders |-> ords,
                          code |-> code, err |-> err]
  IN
  IF Len(items) = 0 THEN keep(400, "Validation")
  ELSE IF total <= 0 THEN keep(400, "Validation")
  ELSE IF addr = "noCity" THEN keep(400, "Validation")
  ELSE
    LET loop == checkAndReduce(prods, items, 1) IN
    IF loop.err # "none"
      THEN [products |-> loop.products, users |-> usrs, orders |-> ords,
            code |-> loop.code, err |-> loop.err]
    ELSE IF method = "wallet" /\ insufficientFunds(usrs[u].walletBalance, total)
      THEN [products |-> loop.products, users |-> usrs, orders |-> ords,
            code |-> 400, err |-> "InsufficientFunds"]
    ELSE
      LET paid == method = "wallet"
          usrs2 == IF paid
                     THEN [usrs EXCEPT ![u] = userSave(@, @.walletBalance - total,
                                                       @.walletTransactions)]
                     ELSE usrs
          ref == IF paid THEN WALLET_PAYMENT ELSE NoRef
          order == NewOrder(u, items, total, addr, method,
                            IF paid THEN "paid" ELSE "pending",
                            IF paid THEN "completed" ELSE "pending", ref)
      IN
      IF usrs2[u].walletBalance < 0
        THEN [products |-> loop.products, users |-> usrs, orders |-> ords,
              code |-> 400, err |-> "ValidationError"]
      ELSE IF ~AddrValid(addr)
        THEN [products |-> loop.products, users |-> usrs2, orders |-> ords,
              code |-> 400, err |-> "ValidationError"]
      ELSE IF RefTaken(ords, ref)
        THEN [products |-> loop.products, users |-> usrs2, orders |-> ords,
              code |-> 400, err |-> "DuplicateKey"]
      ELSE [products |-> loop.products, users |-> usrs2, orders |-> Append(ords, order),
            code |-> 201, err |-> "none"]

createOrder(u, items, total, addr, method) ==
  LET r == createOrderResult(products, users, orders, u, items, total, addr, method) IN
  /\ r.err = "none" => Len(orders) < MaxOrders
  /\ products' = r.products
  /\ users' = r.users
  /\ orders' = r.orders
  /\ last' = Resp("createOrder", u, r.code, r.err, 0)
  /\ UNCHANGED <<gateway, reqs, carts, client>>

\* ------------------------------------------ routes/orders.js POST /
\* First loop of the route handler: validation only, nothing is written.
RECURSIVE validateItems(_, _, _)
validateItems(prods, items, i) ==
  IF i > Len(items) THEN [code |-> 0, err |-> "none"]
  ELSE LET item == items[i] IN
    IF item.product \notin DOMAIN prods THEN [code |-> 404, err |-> "NotFound"]
    ELSE IF prods[item.product].stock < item.quantity THEN [code |-> 400, err |-> "OutOfStock"]
    ELSE IF toFixed2(prods[item.product].price) # toFixed2(item.price)
      THEN [code |-> 400, err |-> "PriceMismatch"]
    ELSE validateItems(prods, items, i + 1)

\* Second loop: Product.findByIdAndUpdate(id, {$inc: {stock: -quantity}}),
\* an update without validators.
RECURSIVE decStock(_, _, _)
decStock(prods, items, i) ==
  IF i > Len(items) THEN prods
  ELSE decStock([prods EXCEPT ![items[i].product].stock = @ - items[i].quantity], items, i + 1)

routerPostOrdersResult(prods, ords, u, items, total, addr) ==
  LET keep(code, err) == [products |-> prods, orders |-> ords, code |-> code, err |-> err] IN
  IF Len(items) = 0 \/ total = 0 THEN keep(400, "Validation")
  ELSE
    LET v == validateItems(prods, items, 1) IN
    IF v.err # "none" THEN keep(v.code, v.err)
    ELSE IF ~AddrValid(addr) \/ total < 0 THEN keep(500, "ServerError")
    ELSE [products |-> decStock(prods, items, 1),
          orders |-> Append(ords, NewOrder(u, items, total, addr, "Paystack",
                                           "pending", "pending", NoRef)),
          code |-> 201, err |-> "none"]

routerPostOrders(u, items, total, addr) ==
  LET r == routerPostOrdersResult(products, orders, u, items, total, addr) IN
  /\ r.err = "none" => Len(orders) < MaxOrders
  /\ products' = r.products
  /\ orders' = r.orders
  /\ carts' = IF r.err = "none" THEN [carts EXCEPT ![u] = NoCart] ELSE carts
  /\ last' = Resp("routerPostOrders", u, r.code, r.err, 0)
  /\ UNCHANGED <<users, gateway, reqs, client>>

\* ------------------------------------------------------------ gateway
\* A gateway transaction: the metadata the initializing handler attached
\* (order_id/user_id for an order payment, purpose/userId for a top-up; a key
\* the handler did not set is "none" or 0), the amount in kobo and the status.
Txn(purpose, userId, user_id, order_id, amount, status) ==
  [purpose |-> purpose, userId |-> userId, user_id |-> user_id, order_id |-> order_id,
   amount |-> amount, status |-> status]

\* The customer completes or abandons the hosted payment page.
gatewaySettle(ref, outcome) ==
  /\ ref \in 1..Len(gateway)
  /\ gateway[ref].status = "pending"
  /\ gateway' = [gateway EXCEPT ![ref].status = outcome]
  /\ last' = Resp("gatewaySettle", "none", 0, "none", ref)
  /\ UNCHANGED <<products, users, orders, reqs, carts, client>>

\* Any known reference taken for a successful payment.
gatewaySuccessAlways(gw, ref) == ref \in 1..Len(gw)

\* utils/paystack.js verifyTransaction and the https call of /verify: the
\* gateway knows the reference and reports the transaction successful.
gatewaySuccess(gw, ref) == ref \in 1..Len(gw) /\ gw[ref].status = "success"

\* --------------------------------------------- POST /paystack/initialize
paystackInitialize(u, amount, orderId) ==
  /\ Len(gateway) < MaxRefs
  /\ IF amount = 0 \/ orderId = 0
       THEN /\ last' = Resp("paystackInitialize", u, 400, "Validation", orderId)
            /\ UNCHANGED <<gateway, reqs>>
       ELSE /\ gateway' = Append(gateway, Txn("none", "none", u, orderId, amount, "pending"))
            /\ last' = Resp("paystackInitialize", u, 200, "none", orderId)
  /\ UNCHANGED <<products, users, orders, reqs, carts, client>>

\* ------------------------------------------------- POST /paystack/verify
\* The security check left out.
callerMatchesAnyone(txn, u) == TRUE

\* The security check: metadata user_id against req.user.id.
callerMatches(txn, u) == txn.user_id = u

\* The update applied whatever the payment status.
verifyUpdatesAlways(order) == TRUE

\* The guard of the update: only an order whose payment is pending is touched.
verifyUpdates(order) == order.paymentStatus = "pending"

paystackVerifyResult(ords, gw, u, ref) ==
  LET keep(code, err) == [orders |-> ords, code |-> code, err |-> err] IN
  IF ref = NoRef THEN keep(400, "Validation")
  ELSE IF ~gatewaySuccess(gw, ref) THEN keep(400, "GatewayError")
  ELSE IF ~callerMatches(gw[ref], u) THEN keep(403, "Forbidden")
  ELSE IF gw[ref].order_id \notin 1..Len(ords) THEN keep(404, "NotFound")
  ELSE
    LET o == gw[ref].order_id IN
    IF verifyUpdates(ords[o])
      THEN IF RefTaken(ords, ref) THEN keep(500, "ServerError")
           ELSE [orders |-> [ords EXCEPT ![o].paymentStatus = "paid",
                                         ![o].status = "completed",
                                         ![o].paystackReference = ref],
                 code |-> 200, err |-> "none"]
      ELSE keep(200, "none")

paystackVerify(u, ref) ==
  LET r == paystackVerifyResult(orders, gateway, u, ref) IN
  /\ orders' = r.orders
  /\ last' = Resp("paystackVerify", u, r.code, r.err, ref)
  /\ UNCHANGED <<products, users, gateway, reqs, carts, client>>

\* ------------------------------------------------ wallet top-up controller
\* amount * 100: naira to kobo.
toKobo(amount) == amount \div 10
\* amount / 100: kobo to naira.
fromKobo(kobo) == kobo * 10

initializeAddFunds(u, amount) ==
  /\ Len(gateway) < MaxRefs
  /\ IF amount <= 0
       THEN /\ last' = Resp("initializeAddFunds", u, 400, "Validation", 0)
            /\ UNCHANGED <<gateway, reqs>>
       ELSE /\ gateway' = Append(gateway,
                                  Txn("wallet_topup", u, "none", 0, toKobo(amount), "pending"))
            /\ last' = Resp("initializeAddFunds", u, 200, "none", 0)
  /\ UNCHANGED <<products, users, orders, reqs, carts, client>>

includes(seq, x) == \E i \in 1..Len(seq) : seq[i] = x

\* No duplicate-credit guard, as in the first version of the controller.
alreadyProcessedNever(user, ref) == FALSE

\* The duplicate-credit guard: user.walletTransactions.includes(reference).
alreadyProcessed(user, ref) == includes(user.walletTransactions, ref)

\* The metadata check left out.
metadataMismatchNever(txn, u) == FALSE

\* metadata.purpose !== 'wallet_topup' || metadata.userId !== userId.
metadataMismatch(txn, u) == txn.purpose # "wallet_topup" \/ txn.userId # u

verifyAddFundsResult(usrs, gw, u, ref) ==
  LET keep(code, err) == [users |-> usrs, code |-> code, err |-> err] IN
  IF ref = NoRef THEN keep(400, "Validation")
  ELSE IF ref \notin 1..Len(gw) THEN keep(500, "GatewayError")
  ELSE IF gw[ref].status # "success" THEN keep(400, "GatewayError")
  ELSE IF metadataMismatch(gw[ref], u) THEN keep(401, "Unauthorized")
  ELSE IF alreadyProcessed(usrs[u], ref) THEN keep(409, "Conflict")
  ELSE [users |-> [usrs EXCEPT ![u] = userSave(@, @.walletBalance + fromKobo(gw[ref].amount),
                                               Append(@.walletTransactions, ref))],
        code |-> 200, err |-> "none"]

verifyAddFunds(u, ref) ==
  LET r == verifyAddFundsResult(users, gateway, u, ref) IN
  /\ users' = r.users
  /\ last' = Resp("verifyAddFunds", u, r.code, r.err, ref)
  /\ UNCHANGED <<products, orders, gateway, reqs, carts, client>>

\* ------------------------------------------- PUT /orders/:id/status
\* The role check left out.
authorizeRolesAnyone(caller, r) == TRUE

\* authorizeRoles('admin'): the caller's role is the required one.
authorizeRoles(caller, r) == role[caller] = r

\* The payment status reset together with the status.
statusUpdateResetsPayment(order, status) ==
  [order EXCEPT !.status = status, !.paymentStatus = "pending"]

\* order.status = status; order.save().
statusUpdate(order, status) == [order EXCEPT !.status = status]

updateOrderStatus(caller, id, status) ==
  /\ IF ~authorizeRoles(caller, "admin")
       THEN /\ last' = Resp("updateOrderStatus", caller, 403, "Forbidden", id)
            /\ UNCHANGED orders
     ELSE IF id \notin 1..Len(orders)
       THEN /\ last' = Resp("updateOrderStatus", caller, 404, "NotFound", id)
            /\ UNCHANGED orders
     ELSE IF status \notin {"pending", "completed", "shipped", "delivered", "cancelled"}
       THEN /\ last' = Resp("updateOrderStatus", caller, 400, "Validation", id)
            /\ UNCHANGED orders
     ELSE /\ orders' = [orders EXCEPT ![id] = statusUpdate(orders[id], status)]
          /\ last' = Resp("updateOrderStatus", caller, 200, "none", id)
  /\ UNCHANGED <<products, users, gateway, reqs, carts, client>>

\* ------------------------------------------------------- cart controller
\* Array.prototype.findIndex on cart.items by product id: the first matching
\* position, 0 when there is none (-1 in the source).
findIndex(items, p) ==
  IF \E i \in 1..Len(items) : items[i].product = p
    THEN CHOOSE i \in 1..Len(items) :
           items[i].product = p /\ \A j \in 1..(i - 1) : items[j].product # p
    ELSE 0

\* Array.prototype.splice(i, 1).
splice(items, i) == [j \in 1..(Len(items) - 1) |-> IF j < i THEN items[j] ELSE items[j + 1]]

\* A cart line: the product id, the price snapshot and the quantity.
CartLine(prods, p, q) == [product |-> p, price |-> prods[p].price, quantity |-> q]

\* calculateCartTotal: the sum of price * quantity over the lines.
RECURSIVE calculateCartTotal(_, _)
calculateCartTotal(items, i) ==
  IF i > Len(items) THEN 0
  ELSE items[i].price * items[i].quantity + calculateCartTotal(items, i + 1)

\* getCart: the items of the user's cart, none when there is no document.
getCart(crts, u) == IF crts[u].exists THEN crts[u].items ELSE <<>>

\* The cumulative check left out.
exceedsStockNever(stock, inCart, quantity) == FALSE

\* The cumulative check: product.stock < currentQuantityInCart + quantity.
exceedsStock(stock, inCart, quantity) == stock < inCart + quantity

\* The requested quantity replacing the line's quantity.
newTotalQuantityReplaces(inCart, quantity) == quantity

\* newTotalQuantity = currentQuantityInCart + quantity.
newTotalQuantity(inCart, quantity) == inCart + quantity

\* Result of the whole handler: the carts, the status, the error kind and the
\* number the error message reports (0 when it reports none).
addToCartResult(prods, crts, u, p, q) ==
  LET keep(code, err, n) == [carts |-> crts, code |-> code, err |-> err, arg |-> n]
      saved(items) == [carts |-> [crts EXCEPT ![u] = [exists |-> TRUE, items |-> items]],
                       code |-> 200, err |-> "none", arg |-> 0]
  IN
  IF q <= 0 THEN keep(400, "Validation", 0)
  ELSE IF p \notin DOMAIN prods THEN keep(404, "NotFound", 0)
  ELSE IF prods[p].stock < q THEN keep(400, "OutOfStock", prods[p].stock)
  ELSE IF crts[u].exists
    THEN LET itemIndex == findIndex(crts[u].items, p) IN
         IF itemIndex > 0
           THEN LET currentQuantityInCart == crts[u].items[itemIndex].quantity IN
                IF exceedsStock(prods[p].stock, currentQuantityInCart, q)
                  THEN keep(400, "OutOfStock", prods[p].stock - currentQuantityInCart)
                  ELSE saved([crts[u].items EXCEPT ![itemIndex].quantity =
                                          newTotalQuantity(currentQuantityInCart, q)])
           ELSE saved(Append(crts[u].items, CartLine(prods, p, q)))
    ELSE saved(<<CartLine(prods, p, q)>>)

addToCart(u, p, q) ==
  LET r == addToCartResult(products, carts, u, p, q) IN
  /\ carts' = r.carts
  /\ last' = Resp("addToCart", u, r.code, r.err, r.arg)
  /\ UNCHANGED <<products, users, orders, gateway, reqs, client>>

\* Quantity 0 stored on the line instead of removing it.
removeLineKeeps(items, i) == [items EXCEPT ![i].quantity = 0]

\* The quantity-0 branch: cart.items.splice(itemIndex, 1).
removeLine(items, i) == splice(items, i)

updateCartItemQuantityResult(prods, crts, u, p, q) ==
  LET keep(code, err, n) == [carts |-> crts, code |-> code, err |-> err, arg |-> n]
      saved(items) == [carts |-> [crts EXCEPT ![u].items = items],
                       code |-> 200, err |-> "none", arg |-> 0]
  IN
  IF q < 0 THEN keep(400, "Validation", 0)
  ELSE IF ~crts[u].exists THEN keep(404, "NotFound", 0)
  ELSE LET itemIndex == findIndex(crts[u].items, p) IN
    IF itemIndex = 0 THEN keep(404, "NotFound", 0)
    ELSE IF q = 0 THEN saved(removeLine(crts[u].items, itemIndex))
    ELSE IF p \notin DOMAIN prods THEN keep(404, "NotFound", 0)
    ELSE IF prods[p].stock < q THEN keep(400, "OutOfStock", prods[p].stock)
    ELSE saved([crts[u].items EXCEPT ![itemIndex].quantity = q])

updateCartItemQuantity(u, p, q) ==
  LET r == updateCartItemQuantityResult(products, carts, u, p, q) IN
  /\ carts' = r.carts
  /\ last' = Resp("updateCartItemQuantity", u, r.code, r.err, r.arg)
  /\ UNCHANGED <<products, users, orders, gateway, reqs, client>>

\* Array.prototype.filter keeping the lines of the other products.
RECURSIVE filterOut(_, _, _)
filterOut(items, p, i) ==
  IF i > Len(items) THEN <<>>
  ELSE (IF items[i].product # p THEN <<items[i]>> ELSE <<>>) \o filterOut(items, p, i + 1)

removeCartItem(u, p) ==
  /\ IF ~carts[u].exists
       THEN /\ last' = Resp("removeCartItem", u, 404, "NotFound", 0)
            /\ UNCHANGED carts
     ELSE IF Len(filterOut(carts[u].items, p, 1)) = Len(carts[u].items)
       THEN /\ last' = Resp("removeCartItem", u, 404, "NotFound", 0)
            /\ UNCHANGED carts
     ELSE /\ carts' = [carts EXCEPT ![u].items = filterOut(carts[u].items, p, 1)]
          /\ last' = Resp("removeCartItem", u, 200, "none", 0)
  /\ UNCHANGED <<products, users, orders, gateway, reqs, client>>

clearCart(u) ==
  /\ carts' = IF carts[u].exists THEN [carts EXCEPT ![u].items = <<>>] ELSE carts
  /\ last' = Resp("clearCart", u, 200, "none", 0)
  /\ UNCHANGED <<products, users, orders, gateway, reqs, client>>

\* ---------------------------------------------- PUT /products/:id (admin)
\* The administrator sets a product's stock; a negative value is refused.
updateProduct(p, stock) ==
  /\ IF stock < 0
       THEN /\ last' = Resp("updateProduct", Admin, 400, "Validation", 0)
            /\ UNCHANGED products
     ELSE IF p \notin DOMAIN products
       THEN /\ last' = Resp("updateProduct", Admin, 404, "NotFound", 0)
            /\ UNCHANGED products
     ELSE /\ products' = [products EXCEPT ![p].stock = stock]
          /\ last' = Resp("updateProduct", Admin, 200, "none", 0)
  /\ UNCHANGED <<users, orders, gateway, reqs, carts, client>>

\* --------------------------------------------------------- initial states
\* The browser: nobody logged in, an empty guest cart, no merge running, the
\* shop page shown.
NoMerge == [pc |-> "idle", items |-> <<>>, i |-> 0, sent |-> <<>>, results |-> <<>>]

InitClient == [token |-> FALSE, user |-> "none", localCart |-> <<>>, merge |-> NoMerge,
               fetching |-> FALSE, fetched |-> FALSE,
               page |-> "shop", reference |-> NoRef, orderId |-> 0, confirm |-> "none"]

NoResp == Resp("none", "none", 0, "none", 0)

Idle == [pc |-> "idle", handler |-> "none", user |-> "none", items |-> <<>>, total |-> 0,
         method |-> "none", i |-> 0, balance |-> 0, newStock |-> 0,
         ref |-> 0, product |-> "none", quantity |-> 0]

InitProducts ==
  [p \in Products |-> [price |-> IF p = "p1" THEN 1000 ELSE 2000, stock |-> MaxStock]]

\* Checkout starts after u1 has topped the wallet up once (NGN 3.00).
InitCheckout ==
  /\ products = InitProducts
  /\ users = [u \in Shoppers |->
               IF u = "u1" THEN [walletBalance |-> 3000, walletTransactions |-> <<1>>,
                                 password |-> bcryptHash(OriginalPassword(u))]
                           ELSE [walletBalance |-> 0, walletTransactions |-> <<>>,
                                 password |-> bcryptHash(OriginalPassword(u))]]
  /\ orders = <<>>
  /\ gateway = <<Txn("wallet_topup", "u1", "none", 0, 300, "success")>>
  /\ last = NoResp
  /\ reqs = [k \in 1..MaxInflight |-> Idle]
  /\ carts = [u \in Shoppers |-> NoCart]
  /\ client = InitClient

NextCheckout ==
  \/ \E u \in CheckoutUsers, items \in ItemSeqs, total \in TotalInputs,
        addr \in AddrInputs, method \in MethodInputs :
       createOrder(u, items, total, addr, method)
  \/ \E u \in CheckoutUsers, items \in ItemSeqs, total \in TotalInputs,
        addr \in AddrInputs :
       routerPostOrders(u, items, total, addr)

SpecCheckout == InitCheckout /\ [][NextCheckout]_vars

\* ------------------------------------------------------ wallet top-up
InitFresh ==
  /\ products = InitProducts
  /\ users = [u \in Shoppers |-> [walletBalance |-> 0, walletTransactions |-> <<>>,
                                 password |-> bcryptHash(OriginalPassword(u))]]
  /\ orders = <<>>
  /\ gateway = <<>>
  /\ last = NoResp
  /\ reqs = [k \in 1..MaxInflight |-> Idle]
  /\ carts = [u \in Shoppers |-> NoCart]
  /\ client = InitClient

RefInputs == 0..(MaxRefs + 1)

NextWallet ==
  \/ \E u \in Shoppers, amount \in AmountInputs : initializeAddFunds(u, amount)
  \/ \E u \in Shoppers, orderId \in 1..MaxOrders : paystackInitialize(u, 100, orderId)
  \/ \E ref \in 1..MaxRefs, outcome \in {"success", "failed"} : gatewaySettle(ref, outcome)
  \/ \E u \in Shoppers, ref \in RefInputs : verifyAddFunds(u, ref)

SpecWallet == InitFresh /\ [][NextWallet]_vars

\* ----------------------------------------------------- gateway payment
PayItemSeqs == {<<[product |-> "p1", quantity |-> 1, price |-> 1000]>>,
                <<[product |-> "p2", quantity |-> 1, price |-> 2004]>>}

PayStatusInputs == {"shipped", "bogus"}

NextPay ==
  \/ \E u \in Shoppers, items \in PayItemSeqs : createOrder(u, items, 1000, "complete", "paystack")
  \/ \E u \in Shoppers, amount \in KoboInputs, orderId \in 0..MaxOrders :
       Len(gateway) < MaxPayRefs /\ paystackInitialize(u, amount, orderId)
  \/ \E ref \in 1..MaxPayRefs, outcome \in {"success", "failed"} : gatewaySettle(ref, outcome)
  \/ \E u \in Shoppers, ref \in 0..(MaxPayRefs + 1) : paystackVerify(u, ref)
  \/ \E caller \in {"u1", Admin}, id \in 1..MaxOrders, status \in PayStatusInputs :
       updateOrderStatus(caller, id, status)

SpecPay == InitFresh /\ [][NextPay]_vars

\* ------------------------------------- wallet and gateway side by side
FundsMethods == {"wallet", "paystack"}

NextFunds ==
  \/ \E u \in Shoppers : initializeAddFunds(u, 1000)
  \/ \E u \in Shoppers : paystackInitialize(u, 100, 1)
  \/ \E ref \in 1..MaxRefs : gatewaySettle(ref, "success")
  \/ \E u \in Shoppers, ref \in 1..MaxRefs : verifyAddFunds(u, ref)
  \/ \E u \in Shoppers, ref \in 1..MaxRefs : paystackVerify(u, ref)
  \/ \E u \in CheckoutUsers, items \in PayItemSeqs, method \in FundsMethods :
       createOrder(u, items, 1000, "complete", method)

SpecFunds == InitFresh /\ [][NextFunds]_vars

\* --------------------------------------------- requests in flight
\* The same two checkout handlers, one database operation per step, so that
\* the awaits of concurrent requests interleave.
Respond(k, op, code, err) ==
  /\ last' = Resp(op, reqs[k].user, code, err, 0)
  /\ reqs' = [reqs EXCEPT ![k] = Idle]

\* createOrder: request validation and User.findById.
coBegin(k, u, items, total, method) ==
  /\ reqs[k].pc = "idle"
  /\ IF Len(items) = 0 \/ total <= 0
       THEN /\ last' = Resp("createOrder", u, 400, "Validation", 0)
            /\ UNCHANGED reqs
       ELSE /\ reqs' = [reqs EXCEPT ![k] =
                  [pc |-> "find", handler |-> "createOrder", user |-> u, items |-> items,
                   total |-> total, method |-> method, i |-> 1,
                   balance |-> users[u].walletBalance, newStock |-> 0,
                   ref |-> 0, product |-> "none", quantity |-> 0]]
            /\ UNCHANGED last
  /\ UNCHANGED <<products, users, orders, gateway, carts, client>>

\* createOrder: Product.findById for item i, the three checks, and the
\* decrement of the copy held by the request.
coFind(k) ==
  /\ reqs[k].pc = "find" /\ reqs[k].handler = "createOrder"
  /\ LET item == reqs[k].items[reqs[k].i] IN
     IF item.product \notin DOMAIN products
       THEN Respond(k, "createOrder", 404, "NotFound")
     ELSE IF products[item.product].stock < item.quantity
       THEN Respond(k, "createOrder", 400, "OutOfStock")
     ELSE IF toFixed2(products[item.product].price) # toFixed2(item.price)
       THEN Respond(k, "createOrder", 400, "PriceMismatch")
     ELSE /\ reqs' = [reqs EXCEPT ![k].pc = "save",
                                   ![k].newStock = products[item.product].stock - item.quantity]
          /\ UNCHANGED last
  /\ UNCHANGED <<products, users, orders, gateway, carts, client>>

\* createOrder: product.save() writes the stock of the request's copy.
coSave(k) ==
  /\ reqs[k].pc = "save" /\ reqs[k].handler = "createOrder"
  /\ products' = [products EXCEPT ![reqs[k].items[reqs[k].i].product].stock = reqs[k].newStock]
  /\ reqs' = [reqs EXCEPT ![k].i = @ + 1,
                           ![k].pc = IF reqs[k].i < Len(reqs[k].items) THEN "find"
                                     ELSE IF reqs[k].method = "wallet" THEN "pay" ELSE "create"]
  /\ UNCHANGED <<users, orders, gateway, last, carts, client>>

\* createOrder: the wallet branch, on the user document read at the start.
coPay(k) ==
  /\ reqs[k].pc = "pay"
  /\ IF insufficientFunds(reqs[k].balance, reqs[k].total)
       THEN /\ Respond(k, "createOrder", 400, "InsufficientFunds")
            /\ UNCHANGED users
       ELSE /\ users' = [users EXCEPT ![reqs[k].user] =
                            userSave(@, reqs[k].balance - reqs[k].total, @.walletTransactions)]
            /\ reqs' = [reqs EXCEPT ![k].pc = "create"]
            /\ UNCHANGED last
  /\ UNCHANGED <<products, orders, gateway, carts, client>>

\* createOrder: Order.create and the response.
coCreate(k) ==
  /\ reqs[k].pc = "create" /\ reqs[k].handler = "createOrder"
  /\ LET paid == reqs[k].method = "wallet"
         ref == IF paid THEN WALLET_PAYMENT ELSE NoRef
     IN IF RefTaken(orders, ref)
          THEN /\ Respond(k, "createOrder", 400, "DuplicateKey")
               /\ UNCHANGED orders
          ELSE /\ orders' = Append(orders,
                     NewOrder(reqs[k].user, reqs[k].items, reqs[k].total, "complete",
                              reqs[k].method, IF paid THEN "paid" ELSE "pending",
                              IF paid THEN "completed" ELSE "pending", ref))
               /\ Respond(k, "createOrder", 201, "none")
  /\ UNCHANGED <<products, users, gateway, carts, client>>

\* POST /orders of routes/orders.js: the basic validation.
rpBegin(k, u, items, total) ==
  /\ reqs[k].pc = "idle"
  /\ IF Len(items) = 0 \/ total = 0
       THEN /\ last' = Resp("routerPostOrders", u, 400, "Validation", 0)
            /\ UNCHANGED reqs
       ELSE /\ reqs' = [reqs EXCEPT ![k] =
                  [pc |-> "find", handler |-> "routerPostOrders", user |-> u, items |-> items,
                   total |-> total, method |-> "Paystack", i |-> 1, balance |-> 0,
                   newStock |-> 0, ref |-> 0, product |-> "none", quantity |-> 0]]
            /\ UNCHANGED last
  /\ UNCHANGED <<products, users, orders, gateway, carts, client>>

\* routes/orders.js: Product.findById for item i and the three checks.
rpFind(k) ==
  /\ reqs[k].pc = "find" /\ reqs[k].handler = "routerPostOrders"
  /\ LET item == reqs[k].items[reqs[k].i] IN
     IF item.product \notin DOMAIN products
       THEN Respond(k, "routerPostOrders", 404, "NotFound")
     ELSE IF products[item.product].stock < item.quantity
       THEN Respond(k, "routerPostOrders", 400, "OutOfStock")
     ELSE IF toFixed2(products[item.product].price) # toFixed2(item.price)
       THEN Respond(k, "routerPostOrders", 400, "PriceMismatch")
     ELSE /\ reqs' = [reqs EXCEPT ![k].i = IF reqs[k].i < Len(reqs[k].items) THEN @ + 1 ELSE 1,
                                   ![k].pc = IF reqs[k].i < Len(reqs[k].items) THEN "find"
                                             ELSE "create"]
          /\ UNCHANGED last
  /\ UNCHANGED <<products, users, orders, gateway, carts, client>>

\* routes/orders.js: order.save().
rpCreate(k) ==
  /\ reqs[k].pc = "create" /\ reqs[k].handler = "routerPostOrders"
  /\ orders' = Append(orders, NewOrder(reqs[k].user, reqs[k].items, reqs[k].total, "complete",
                                        "Paystack", "pending", "pending", NoRef))
  /\ reqs' = [reqs EXCEPT ![k].pc = "inc"]
  /\ UNCHANGED <<products, users, gateway, last, carts, client>>

\* routes/orders.js: one $inc of the second loop; the response after the last.
rpInc(k) ==
  /\ reqs[k].pc = "inc"
  /\ products' = [products EXCEPT ![reqs[k].items[reqs[k].i].product].stock =
                                     @ - reqs[k].items[reqs[k].i].quantity]
  /\ IF reqs[k].i < Len(reqs[k].items)
       THEN /\ reqs' = [reqs EXCEPT ![k].i = @ + 1]
            /\ UNCHANGED <<last, carts>>
       ELSE /\ carts' = [carts EXCEPT ![reqs[k].user] = NoCart]
            /\ Respond(k, "routerPostOrders", 201, "none")
  /\ UNCHANGED <<users, orders, gateway, client>>

RaceItemSeqs ==
  {<<[product |-> "p1", quantity |-> 1, price |-> 1000]>>,
   <<[product |-> "p1", quantity |-> 1, price |-> 1000],
     [product |-> "p2", quantity |-> 1, price |-> 2004]>>,
   <<[product |-> NoSuchProduct, quantity |-> 1, price |-> 1000]>>,
   <<>>}

NextRace ==
  \/ \E k \in 1..MaxInflight, u \in CheckoutUsers, items \in RaceItemSeqs,
        total \in TotalInputs, method \in MethodInputs :
       Len(orders) < MaxOrders /\ coBegin(k, u, items, total, method)
  \/ \E k \in 1..MaxInflight : coFind(k)
  \/ \E k \in 1..MaxInflight : coSave(k)
  \/ \E k \in 1..MaxInflight : coPay(k)
  \/ \E k \in 1..MaxInflight : coCreate(k)
  \/ \E k \in 1..MaxInflight, u \in CheckoutUsers, items \in RaceItemSeqs,
        total \in TotalInputs :
       Len(orders) < MaxOrders /\ rpBegin(k, u, items, total)
  \/ \E k \in 1..MaxInflight : rpFind(k)
  \/ \E k \in 1..MaxInflight : rpCreate(k)
  \/ \E k \in 1..MaxInflight : rpInc(k)

SpecRace == InitCheckout /\ [][NextRace]_vars

\* ------------------------------------- wallet top-up requests in flight
\* verifyAddFunds up to its first database read: the reference, the answer
\* of the gateway and the metadata.
vaBegin(k, u, ref) ==
  /\ reqs[k].pc = "idle"
  /\ IF ref = NoRef
       THEN /\ last' = Resp("verifyAddFunds", u, 400, "Validation", ref)
            /\ UNCHANGED reqs
     ELSE IF ref \notin 1..Len(gateway)
       THEN /\ last' = Resp("verifyAddFunds", u, 500, "GatewayError", ref)
            /\ UNCHANGED reqs
     ELSE IF gateway[ref].status # "success"
       THEN /\ last' = Resp("verifyAddFunds", u, 400, "GatewayError", ref)
            /\ UNCHANGED reqs
     ELSE IF metadataMismatch(gateway[ref], u)
       THEN /\ last' = Resp("verifyAddFunds", u, 401, "Unauthorized", ref)
            /\ UNCHANGED reqs
       ELSE /\ reqs' = [reqs EXCEPT ![k] =
                  [Idle EXCEPT !.pc = "read", !.handler = "verifyAddFunds", !.user = u,
                               !.ref = ref, !.total = fromKobo(gateway[ref].amount)]]
            /\ UNCHANGED last
  /\ UNCHANGED <<products, users, orders, gateway, carts, client>>

\* verifyAddFunds: User.findById and the duplicate check on the copy read.
vaRead(k) ==
  /\ reqs[k].pc = "read"
  /\ IF alreadyProcessed(users[reqs[k].user], reqs[k].ref)
       THEN /\ last' = Resp("verifyAddFunds", reqs[k].user, 409, "Conflict", reqs[k].ref)
            /\ reqs' = [reqs EXCEPT ![k] = Idle]
       ELSE /\ reqs' = [reqs EXCEPT ![k].pc = "credit",
                                     ![k].balance = users[reqs[k].user].walletBalance]
            /\ UNCHANGED last
  /\ UNCHANGED <<products, users, orders, gateway, carts, client>>

\* An increment of the stored balance.
writtenBalanceIncrements(stored, read, amount) == stored + amount

\* user.walletBalance += amountPaid on the copy read: the value save() sets.
writtenBalance(stored, read, amount) == read + amount

\* verifyAddFunds: user.save() sets the balance computed from the copy and
\* pushes the reference onto the stored array; then the response.
vaSave(k) ==
  /\ reqs[k].pc = "credit"
  /\ users' = [users EXCEPT ![reqs[k].user] =
                 userSave(@, writtenBalance(@.walletBalance, reqs[k].balance, reqs[k].total),
                          Append(@.walletTransactions, reqs[k].ref))]
  /\ last' = Resp("verifyAddFunds", reqs[k].user, 200, "none", reqs[k].ref)
  /\ reqs' = [reqs EXCEPT ![k] = Idle]
  /\ UNCHANGED <<products, orders, gateway, carts, client>>

TopUpAmounts == {1000, 3000}

NextTopUpRace ==
  \/ \E u \in Shoppers, amount \in TopUpAmounts : initializeAddFunds(u, amount)
  \/ \E ref \in 1..MaxRefs : gatewaySettle(ref, "success")
  \/ \E k \in 1..MaxInflight, u \in Shoppers, ref \in 1..MaxRefs :
       Len(users[u].walletTransactions) < MaxRefs /\ vaBegin(k, u, ref)
  \/ \E k \in 1..MaxInflight : vaRead(k)
  \/ \E k \in 1..MaxInflight : vaSave(k)

SpecTopUpRace == InitFresh /\ [][NextTopUpRace]_vars

\* One wallet checkout of u1 among the top-up verifications of u1.
WalletRaceItems == <<[product |-> "p1", quantity |-> 1, price |-> 1000]>>

NextWalletRace ==
  \/ \E u \in CheckoutUsers : initializeAddFunds(u, 1000)
  \/ \E ref \in 1..MaxRefs : gatewaySettle(ref, "success")
  \/ \E k \in 1..MaxInflight, u \in CheckoutUsers, ref \in 1..MaxRefs : vaBegin(k, u, ref)
  \/ \E k \in 1..MaxInflight : vaRead(k)
  \/ \E k \in 1..MaxInflight : vaSave(k)
  \/ \E k \in 1..MaxInflight, u \in CheckoutUsers :
       /\ Len(orders) = 0
       /\ \A j \in 1..MaxInflight : reqs[j].handler # "createOrder"
       /\ coBegin(k, u, WalletRaceItems, 1000, "wallet")
  \/ \E k \in 1..MaxInflight : coFind(k)
  \/ \E k \in 1..MaxInflight : coSave(k)
  \/ \E k \in 1..MaxInflight : coPay(k)
  \/ \E k \in 1..MaxInflight : coCreate(k)

SpecWalletRace == InitCheckout /\ [][NextWalletRace]_vars

\* ------------------------------------------------------------------ cart
CartQtyInputs == 0..MaxCartQty
CartUsers == {"u1"}

NextCart ==
  \/ \E u \in CartUsers, p \in ProductIds, q \in CartQtyInputs : addToCart(u, p, q)
  \/ \E u \in CartUsers, p \in ProductIds, q \in CartQtyInputs : updateCartItemQuantity(u, p, q)
  \/ \E u \in CartUsers, p \in ProductIds : removeCartItem(u, p)
  \/ \E u \in CartUsers : clearCart(u)
  \/ \E p \in Products, stock \in 0..MaxCartStock : updateProduct(p, stock)

SpecCart == InitFresh /\ [][NextCart]_vars

\* ------------------------------------------- cart requests in flight
\* addToCart up to cart.save(): the validation, Product.findById, the stock
\* checks and Cart.findOne; the request leaves with the write it will make:
\* a quantity set at a position, a line pushed, or a new cart document.
acBegin(k, u, p, q) ==
  /\ reqs[k].pc = "idle"
  /\ LET refuse(code, err) == /\ last' = Resp("addToCart", u, code, err, 0)
                              /\ UNCHANGED reqs
         plan(pc, i, n) == /\ reqs' = [reqs EXCEPT ![k] =
                                 [Idle EXCEPT !.pc = pc, !.handler = "addToCart", !.user = u,
                                              !.product = p, !.quantity = n, !.i = i]]
                           /\ UNCHANGED last
     IN
     IF q <= 0 THEN refuse(400, "Validation")
     ELSE IF p \notin DOMAIN products THEN refuse(404, "NotFound")
     ELSE IF products[p].stock < q THEN refuse(400, "OutOfStock")
     ELSE IF carts[u].exists
       THEN LET itemIndex == findIndex(carts[u].items, p) IN
            IF itemIndex > 0
              THEN LET currentQuantityInCart == carts[u].items[itemIndex].quantity IN
                   IF exceedsStock(products[p].stock, currentQuantityInCart, q)
                     THEN refuse(400, "OutOfStock")
                     ELSE plan("set", itemIndex, newTotalQuantity(currentQuantityInCart, q))
              ELSE plan("push", 0, q)
       ELSE plan("create", 0, q)
  /\ UNCHANGED <<products, users, orders, gateway, carts, client>>

\* A save that changes array positions raises the document version: the
\* requests of the same user that will set a position hold an old version.
outdated(rqs, k, u) ==
  [j \in DOMAIN rqs |->
     IF j # k /\ rqs[j].user = u /\ rqs[j].pc = "set" THEN [rqs[j] EXCEPT !.pc = "stale"]
     ELSE rqs[j]]

\* cart.items.push(line) saved: the line is appended to the stored array.
pushedOnto(stored, line) == Append(stored, line)

\* addToCart: cart.save() and the response.
acSave(k) ==
  /\ reqs[k].handler = "addToCart"
  /\ LET u == reqs[k].user
         line == CartLine(products, reqs[k].product, reqs[k].quantity)
         answer(code, err) == last' = Resp("addToCart", u, code, err, 0)
     IN
     CASE reqs[k].pc = "create" ->
            IF carts[u].exists
              THEN /\ answer(400, "DuplicateKey")
                   /\ reqs' = [reqs EXCEPT ![k] = Idle]
                   /\ UNCHANGED carts
              ELSE /\ carts' = [carts EXCEPT ![u] = [exists |-> TRUE, items |-> <<line>>]]
                   /\ answer(200, "none")
                   /\ reqs' = [reqs EXCEPT ![k] = Idle]
       [] reqs[k].pc = "push" ->
            /\ carts' = [carts EXCEPT ![u].items = pushedOnto(@, line)]
            /\ answer(200, "none")
            /\ reqs' = [outdated(reqs, k, u) EXCEPT ![k] = Idle]
       [] reqs[k].pc = "set" ->
            /\ carts' = [carts EXCEPT ![u].items[reqs[k].i].quantity = reqs[k].quantity]
            /\ answer(200, "none")
            /\ reqs' = [reqs EXCEPT ![k] = Idle]
       [] reqs[k].pc = "stale" ->
            /\ answer(500, "VersionError")
            /\ reqs' = [reqs EXCEPT ![k] = Idle]
            /\ UNCHANGED carts
  /\ UNCHANGED <<products, users, orders, gateway, client>>

NoneInFlight == \A k \in 1..MaxInflight : reqs[k].pc = "idle"

\* The other cart requests run between the steps of no request.
NextCartRace ==
  \/ \E k \in 1..MaxInflight, u \in CartUsers, p \in ProductIds, q \in CartQtyInputs :
       acBegin(k, u, p, q)
  \/ \E k \in 1..MaxInflight : acSave(k)
  \/ \E u \in CartUsers, p \in ProductIds, q \in CartQtyInputs :
       NoneInFlight /\ updateCartItemQuantity(u, p, q)
  \/ \E u \in CartUsers, p \in ProductIds : NoneInFlight /\ removeCartItem(u, p)
  \/ \E u \in CartUsers : NoneInFlight /\ clearCart(u)

SpecCartRace == InitFresh /\ [][NextCartRace]_vars

\* ---------------------------------------------------- order life cycle
\* Orders paid from the wallet or through the gateway, then moved on by the
\* administrator.
LifeStatusInputs == {"pending", "shipped", "bogus"}

NextLife ==
  \/ \E u \in CheckoutUsers, items \in PayItemSeqs, method \in MethodInputs :
       createOrder(u, items, 1000, "complete", method)
  \/ \E u \in Shoppers, orderId \in 1..MaxOrders : paystackInitialize(u, 100, orderId)
  \/ \E ref \in 1..MaxRefs, outcome \in {"success", "failed"} : gatewaySettle(ref, outcome)
  \/ \E u \in Shoppers, ref \in 0..MaxRefs : paystackVerify(u, ref)
  \/ \E caller \in {"u1", Admin}, id \in 1..MaxOrders, status \in LifeStatusInputs :
       updateOrderStatus(caller, id, status)

SpecLife == InitCheckout /\ [][NextLife]_vars

\* ------------------------------------------------- checkout of the cart
\* CheckoutPage: the order items are the cart lines (product, quantity and
\* the price snapshot) and the declared total is the cart's total.
cartOrderItems(items) ==
  [i \in 1..Len(items) |->
     [product |-> items[i].product, quantity |-> items[i].quantity, price |-> items[i].price]]

NextCartCheckout ==
  \/ \E u \in CartUsers, p \in Products, q \in 1..MaxCartQty : addToCart(u, p, q)
  \/ \E u \in CartUsers : clearCart(u)
  \/ \E u \in CartUsers, method \in MethodInputs :
       createOrder(u, cartOrderItems(getCart(carts, u)),
                   calculateCartTotal(getCart(carts, u), 1), "complete", method)
  \/ \E u \in CartUsers :
       routerPostOrders(u, cartOrderItems(getCart(carts, u)),
                        calculateCartTotal(getCart(carts, u), 1), "complete")

SpecCartCheckout == InitCheckout /\ [][NextCartCheckout]_vars

\* -------------------------------------------- guest cart merge on login
\* AuthContext: a guest fills a local cart, logs in, and the effect on the
\* token starts fetchServerCart and mergeLocalCartWithServer side by side.
LocalCarts ==
  UNION {[1..n -> [product : ProductIds, quantity : 1..MaxCartQty]] : n \in 0..MaxItems}

\* mergeLocalCartWithServer up to its first await: nothing to do for an empty
\* local cart, otherwise the loop starts over the local cart it was given.
startMerge(localCart) ==
  IF Len(localCart) = 0 THEN NoMerge
  ELSE [pc |-> "merging", items |-> localCart, i |-> 1,
        sent |-> [j \in 1..Len(localCart) |-> 0], results |-> <<>>]

\* login and the effect on the token.
login(u) ==
  /\ ~client.token
  /\ client' = [client EXCEPT !.token = TRUE, !.user = u, !.fetching = TRUE,
                              !.merge = startMerge(client.localCart)]
  /\ last' = Resp("login", u, 200, "none", 0)
  /\ UNCHANGED <<products, users, orders, gateway, reqs, carts>>

\* fetchServerCart: the GET /cart answer clears the local cart; the new local
\* cart re-runs the effect, which fetches again and calls the merge on the
\* (now empty) local cart unless a merge loop is still running on its own copy.
fetchServerCart ==
  /\ client.token /\ client.fetching
  /\ client' = [client EXCEPT !.localCart = <<>>, !.fetched = TRUE]
  /\ last' = Resp("getCart", client.user, 200, "none", 0)
  /\ UNCHANGED <<products, users, orders, gateway, reqs, carts>>

\* The same line submitted again after a failure.
nextLineRetries(i, ok) == IF ok THEN i + 1 ELSE i

\* for (const item of localCart): the next line, whatever the answer was.
nextLine(i, ok) == i + 1

\* One round of the merge loop: POST /cart for the current line, handled by
\* addToCart; after the last line the local cart is cleared.
mergeLocalCartWithServer ==
  /\ client.merge.pc = "merging"
  /\ LET m == client.merge
         item == m.items[m.i]
         r == addToCartResult(products, carts, client.user, item.product, item.quantity)
         next == nextLine(m.i, r.code = 200)
         over == next > Len(m.items)
     IN /\ carts' = r.carts
        /\ last' = Resp("addToCart", client.user, r.code, r.err, r.arg)
        /\ client' = [client EXCEPT
                        !.merge = [m EXCEPT !.sent[m.i] = @ + 1,
                                            !.results = Append(@, r.code),
                                            !.i = next,
                                            !.pc = IF over THEN "done" ELSE "merging"],
                        !.localCart = IF over THEN <<>> ELSE @,
                        !.fetching = IF over THEN TRUE ELSE @]
  /\ UNCHANGED <<products, users, orders, gateway, reqs>>

InitGuest ==
  /\ products = InitProducts
  /\ users = [u \in Shoppers |-> [walletBalance |-> 0, walletTransactions |-> <<>>,
                                 password |-> bcryptHash(OriginalPassword(u))]]
  /\ orders = <<>>
  /\ gateway = <<>>
  /\ last = NoResp
  /\ reqs = [k \in 1..MaxInflight |-> Idle]
  /\ carts = [u \in Shoppers |-> NoCart]
  /\ \E lc \in LocalCarts : client = [InitClient EXCEPT !.localCart = lc]

NextMerge ==
  \/ \E u \in CartUsers : login(u)
  \/ fetchServerCart
  \/ mergeLocalCartWithServer

SpecMerge == InitGuest /\ [][NextMerge]_vars

\* --------------------------------------------- client checkout flow
\* A shopper whose token and user were restored from localStorage.
InitShopper ==
  /\ products = InitProducts
  /\ users = [u \in Shoppers |->
               IF u = "u1" THEN [walletBalance |-> 3000, walletTransactions |-> <<1>>,
                                 password |-> bcryptHash(OriginalPassword(u))]
                           ELSE [walletBalance |-> 0, walletTransactions |-> <<>>,
                                 password |-> bcryptHash(OriginalPassword(u))]]
  /\ orders = <<>>
  /\ gateway = <<Txn("wallet_topup", "u1", "none", 0, 300, "success")>>
  /\ last = NoResp
  /\ reqs = [k \in 1..MaxInflight |-> Idle]
  /\ carts = [u \in Shoppers |-> NoCart]
  /\ client = [InitClient EXCEPT !.token = TRUE, !.user = "u1"]

\* The shopper opens the checkout page.
goToCheckout ==
  /\ client.token
  /\ client.page \notin {"checkout", "gateway"}
  /\ client' = [client EXCEPT !.page = "checkout", !.reference = NoRef, !.orderId = 0,
                              !.confirm = "none"]
  /\ UNCHANGED <<products, users, orders, gateway, last, reqs, carts>>

\* CheckoutPage handleCheckout with a complete delivery form: the client
\* checks, POST /api/orders with the cart's lines and total, then either the
\* gateway initialization and the redirect to its page, or, for the wallet,
\* clearCart and navigate('/order-confirmation', {state: {orderId}}).
handleCheckout(method) ==
  /\ client.token /\ client.page = "checkout"
  /\ LET u == client.user
         cart == getCart(carts, u)
         total == calculateCartTotal(cart, 1)
         r == createOrderResult(products, users, orders, u, cartOrderItems(cart), total,
                                "complete", method)
     IN
     IF Len(cart) = 0
       THEN /\ client' = [client EXCEPT !.page = "cart"]
            /\ UNCHANGED <<products, users, orders, gateway, last, carts>>
     ELSE IF method = "wallet" /\ users[u].walletBalance < total
       THEN UNCHANGED <<products, users, orders, gateway, last, carts, client>>
     ELSE
       /\ r.err = "none" => Len(orders) < MaxOrders /\ Len(gateway) < MaxRefs
       /\ products' = r.products
       /\ users' = r.users
       /\ orders' = r.orders
       /\ last' = Resp("createOrder", u, r.code, r.err, 0)
       /\ IF r.err # "none"
            THEN UNCHANGED <<gateway, carts, client>>
          ELSE IF method = "paystack"
            THEN /\ gateway' = Append(gateway, Txn("none", "none", u, Len(r.orders),
                                                    toKobo(total), "pending"))
                 /\ client' = [client EXCEPT !.page = "gateway",
                                             !.reference = Len(gateway) + 1]
                 /\ UNCHANGED carts
            ELSE /\ carts' = IF carts[u].exists THEN [carts EXCEPT ![u].items = <<>>]
                                                 ELSE carts
                 /\ client' = [client EXCEPT !.page = "confirmation", !.reference = NoRef,
                                             !.orderId = Len(r.orders), !.confirm = "none"]
                 /\ UNCHANGED gateway
  /\ UNCHANGED reqs

\* The gateway sends the browser to callback_url with ?reference=... once the
\* payment went through.
paystackCallback ==
  /\ client.page = "gateway"
  /\ gateway[client.reference].status = "success"
  /\ client' = [client EXCEPT !.page = "confirmation", !.confirm = "none"]
  /\ UNCHANGED <<products, users, orders, gateway, last, reqs, carts>>

\* OrderConfirmationPage useEffect: the reference of the query string (none:
\* 'No payment reference found. Your order could not be confirmed.', whatever
\* location.state holds), the token, then POST /paystack/verify and the
\* status of the order returned.
OrderConfirmationPage ==
  /\ client.page = "confirmation" /\ client.confirm = "none"
  /\ IF client.reference = NoRef
       THEN /\ client' = [client EXCEPT !.confirm = "noReference"]
            /\ UNCHANGED <<orders, last, carts>>
     ELSE IF ~client.token
       THEN /\ client' = [client EXCEPT !.page = "login"]
            /\ UNCHANGED <<orders, last, carts>>
     ELSE
       LET u == client.user
           r == paystackVerifyResult(orders, gateway, u, client.reference)
           o == gateway[client.reference].order_id
           ok == /\ r.code = 200
                 /\ r.orders[o].status = "completed"
                 /\ r.orders[o].paymentStatus = "paid"
       IN /\ orders' = r.orders
          /\ last' = Resp("paystackVerify", u, r.code, r.err, client.reference)
          /\ client' = [client EXCEPT !.confirm = IF ok THEN "confirmed" ELSE "failed",
                                      !.orderId = IF ok THEN o ELSE 0]
          /\ carts' = IF ok /\ carts[u].exists THEN [carts EXCEPT ![u].items = <<>>]
                                               ELSE carts
  /\ UNCHANGED <<products, users, gateway, reqs>>

NextClient ==
  \/ \E p \in Products, q \in 1..MaxCartQty : client.token /\ addToCart(client.user, p, q)
  \/ goToCheckout
  \/ \E method \in MethodInputs : handleCheckout(method)
  \/ \E ref \in 1..MaxRefs, outcome \in {"success", "failed"} : gatewaySettle(ref, outcome)
  \/ paystackCallback
  \/ OrderConfirmationPage

SpecClient == InitShopper /\ [][NextClient]_vars

\* ================================================================ claims
IsCheckout(op) == op \in {"createOrder", "routerPostOrders"}

RECURSIVE QtyOf(_, _, _)
QtyOf(items, p, i) ==
  IF i > Len(items) THEN 0
  ELSE (IF items[i].product = p THEN items[i].quantity ELSE 0) + QtyOf(items, p, i + 1)

\* Every line names a stored product at its stored price (to the cent) and
\* the stock covers the quantity the whole list asks of that product.
ItemsValid(prods, items) ==
  /\ Len(items) > 0
  /\ \A i \in 1..Len(items) :
       /\ items[i].product \in DOMAIN prods
       /\ toFixed2(prods[items[i].product].price) = toFixed2(items[i].price)
       /\ QtyOf(items, items[i].product, 1) <= prods[items[i].product].stock

\* C1: a checkout rejected with PriceMismatch decrements no product's stock,
\* not even of the items listed before the mismatching one.
C1_PriceMismatchKeepsStock ==
  [][(IsCheckout(last'.op) /\ last'.err = "PriceMismatch") => products' = products]_vars

\* C6: every wallet checkout that passes validation debits the wallet by
\* exactly totalAmount and creates a paid, completed order carrying the
\* wallet sentinel reference.
C6_WalletCheckoutPays ==
  [][\A u \in CheckoutUsers, items \in ItemSeqs, total \in TotalInputs :
       (/\ createOrder(u, items, total, "complete", "wallet")
        /\ total > 0 /\ users[u].walletBalance >= total
        /\ ItemsValid(products, items))
       => /\ users'[u].walletBalance = users[u].walletBalance - total
          /\ Len(orders') = Len(orders) + 1
          /\ orders'[Len(orders')].paymentStatus = "paid"
          /\ orders'[Len(orders')].status = "completed"
          /\ orders'[Len(orders')].paystackReference = WALLET_PAYMENT]_vars

\* C7: a wallet checkout with walletBalance < totalAmount is refused, with
\* InsufficientFunds when the request is otherwise valid, and the stored
\* walletBalance is unchanged.
C7_InsufficientFundsKeepsBalance ==
  \A u \in CheckoutUsers, items \in ItemSeqs, total \in TotalInputs, addr \in AddrInputs :
    LET r == createOrderResult(products, users, orders, u, items, total, addr, "wallet") IN
    users[u].walletBalance < total =>
      /\ r.users = users
      /\ r.code # 201
      /\ (ItemsValid(products, items) /\ addr # "noCity") => r.err = "InsufficientFunds"

C7_Witness ==
  /\ last.op = "createOrder" /\ last.err = "InsufficientFunds"
  /\ users["u1"].walletBalance > 0

\* C2: verifyAddFunds credits a reference once: a call with a reference not
\* yet processed that succeeds adds the gateway-reported amount and records
\* the reference; a call with a processed reference answers 409 and leaves
\* the user record unchanged.
C2_TopUpOncePerReference ==
  [][last'.op = "verifyAddFunds" =>
       LET u == last'.user
           ref == last'.arg
       IN IF ref # NoRef /\ includes(users[u].walletTransactions, ref)
            THEN last'.code = 409 /\ users' = users
            ELSE last'.code = 200 =>
                   /\ gatewaySuccess(gateway, ref)
                   /\ users'[u].walletBalance =
                        users[u].walletBalance + fromKobo(gateway[ref].amount)
                   /\ includes(users'[u].walletTransactions, ref)
                   /\ \A v \in Shoppers \ {u} : users'[v] = users[v]]_vars

C2_Witness ==
  /\ last.op = "verifyAddFunds" /\ last.code = 409
  /\ users[last.user].walletBalance = fromKobo(gateway[last.arg].amount)

\* C3: verifying twice is verifying once, and a verification that resolves to
\* an order already paid answers 200 and changes no field of any order.
C3_VerifyIdempotent ==
  \A u \in Shoppers, ref \in 0..(MaxPayRefs + 1) :
    LET r1 == paystackVerifyResult(orders, gateway, u, ref)
        r2 == paystackVerifyResult(r1.orders, gateway, u, ref)
    IN /\ r2.orders = r1.orders
       /\ r1.code = 200 => r2.code = 200
       /\ (/\ gatewaySuccess(gateway, ref)
           /\ gateway[ref].user_id = u
           /\ gateway[ref].order_id \in 1..Len(orders)
           /\ orders[gateway[ref].order_id].paymentStatus = "paid")
          => (r1.orders = orders /\ r1.code = 200)

\* A verification answered 200 for an order that the admin had already
\* moved on to shipped: the second verification of a paid order.
C3_Witness ==
  /\ last.op = "paystackVerify" /\ last.code = 200
  /\ orders[gateway[last.arg].order_id].paymentStatus = "paid"
  /\ orders[gateway[last.arg].order_id].status = "shipped"

\* C4: a verify call naming a successful gateway transaction whose metadata
\* user id is not the caller's is answered 403, and a verify call with any
\* reference of another user changes no order, wallet or stock value.
C4_ForeignReferenceForbidden ==
  [][(/\ last'.op = "paystackVerify"
      /\ last'.arg \in 1..Len(gateway)
      /\ gateway[last'.arg].user_id # last'.user)
     => /\ UNCHANGED <<orders, users, products>>
        /\ gatewaySuccess(gateway, last'.arg) => last'.code = 403]_vars

C4_Witness ==
  /\ last.op = "paystackVerify" /\ last.code = 403
  /\ gateway[last.arg].user_id # last.user
  /\ gateway[last.arg].order_id \in 1..Len(orders)
  /\ orders[gateway[last.arg].order_id].paymentStatus = "pending"

\* C5: a verify call never changes an order whose owner is not the caller.
C5_VerifyOnlyOwnOrders ==
  [][last'.op = "paystackVerify" =>
       \A o \in 1..Len(orders) : orders[o].user # last'.user => orders'[o] = orders[o]]_vars

\* Units of product p contained in the created orders.
RECURSIVE SoldQty(_, _, _)
SoldQty(ords, p, n) ==
  IF n = 0 THEN 0 ELSE QtyOf(ords[n].items, p, 1) + SoldQty(ords, p, n - 1)

\* C10: the created orders never contain more units of a product than the
\* stock that was available for it.
C10_NoOversell ==
  \A p \in Products : SoldQty(orders, p, Len(orders)) <= InitProducts[p].stock

\* C8: a checkout rejected with NotFound, OutOfStock or InsufficientFunds
\* changes no stock and creates no order.
C8_RejectedCheckoutNoEffect ==
  [][(IsCheckout(last'.op) /\ last'.err \in {"NotFound", "OutOfStock", "InsufficientFunds"})
       => (products' = products /\ orders' = orders)]_vars

\* C9: a completed checkout request either applied all of its effects (stock
\* of every item, the order, the wallet debit) or none of them.
C9_AllOrNothing ==
  [][IsCheckout(last'.op) =>
       \/ (products' = products /\ orders' = orders /\ users' = users)
       \/ /\ last'.code = 201
          /\ Len(orders') = Len(orders) + 1
          /\ LET o == orders'[Len(orders')] IN
             /\ products' = decStock(products, o.items, 1)
             /\ o.paymentMethod = "wallet" =>
                  users'[o.user].walletBalance = users[o.user].walletBalance - o.totalAmount
             /\ o.paymentMethod # "wallet" => users' = users]_vars

\* ------------------------------------------------------------ cart claims
\* Quantity of product p held in the user's stored cart.
InCart(crts, u, p) == QtyOf(getCart(crts, u), p, 1)

\* C11: addToCart of a positive quantity q of a stored product fails with
\* OutOfStock whenever q plus the quantity of the product already in the
\* user's cart exceeds the product's stock, and the stored carts are then
\* exactly what they were.
C11_AddBeyondStockRejected ==
  \A u \in Shoppers, p \in Products, q \in 1..MaxCartQty :
    LET r == addToCartResult(products, carts, u, p, q) IN
    InCart(carts, u, p) + q > products[p].stock =>
      (r.code = 400 /\ r.err = "OutOfStock" /\ r.carts = carts)

\* The cumulative case: one line of p1 with quantity 1, stock 2 of each
\* product, and a request refused reporting 1 addable unit (a request for 2).
C11_Witness ==
  /\ last.op = "addToCart" /\ last.err = "OutOfStock" /\ last.arg = 1
  /\ carts[last.user].exists
  /\ Len(carts[last.user].items) = 1
  /\ carts[last.user].items[1].product = "p1"
  /\ carts[last.user].items[1].quantity = 1
  /\ products["p1"].stock = 2 /\ products["p2"].stock = 2

\* C12 as stated: with c units of p in the cart (c >= 1) and stock s,
\* addToCart(q) with c + q > s reports s - c, and with c + q <= s succeeds and
\* sets the line's quantity to c + q.
C12_ReportsRemainingAlways ==
  \A u \in Shoppers, p \in Products, q \in 1..MaxCartQty :
    LET r == addToCartResult(products, carts, u, p, q)
        c == InCart(carts, u, p)
        s == products[p].stock
    IN c >= 1 =>
         /\ c + q > s => (r.err = "OutOfStock" /\ r.arg = s - c)
         /\ c + q <= s => (r.code = 200 /\ InCart(r.carts, u, p) = c + q)

\* C12 amended: with c units of p in the cart (c >= 1) and stock s,
\* addToCart(q) with q <= s < c + q reports s - c; with s < q it reports the
\* stock s itself; with c + q <= s it succeeds, sets the line's quantity to
\* c + q and changes nothing else of the line or of the other lines.
C12_ReportsRemainingWhenRequestFits ==
  \A u \in Shoppers, p \in Products, q \in 1..MaxCartQty :
    LET r == addToCartResult(products, carts, u, p, q)
        c == InCart(carts, u, p)
        s == products[p].stock
    IN c >= 1 =>
         /\ (q <= s /\ s < c + q) => (r.err = "OutOfStock" /\ r.arg = s - c /\ r.carts = carts)
         /\ s < q => (r.err = "OutOfStock" /\ r.arg = s /\ r.carts = carts)
         /\ c + q <= s =>
              /\ r.code = 200
              /\ InCart(r.carts, u, p) = c + q
              /\ Len(r.carts[u].items) = Len(carts[u].items)
              /\ \A i \in 1..Len(carts[u].items) :
                   /\ r.carts[u].items[i].product = carts[u].items[i].product
                   /\ r.carts[u].items[i].price = carts[u].items[i].price
                   /\ carts[u].items[i].product # p =>
                        r.carts[u].items[i] = carts[u].items[i]
              /\ \A v \in Shoppers \ {u} : r.carts[v] = carts[v]

\* A line filled up to the stock boundary by a second add: quantity
\* MaxCartQty + 1 is more than one request can put in the cart.
C12_Witness ==
  /\ last.op = "addToCart" /\ last.code = 200
  /\ \E i \in 1..Len(carts[last.user].items) :
       /\ carts[last.user].items[i].quantity = MaxCartQty + 1
       /\ products[carts[last.user].items[i].product].stock = MaxCartQty + 1

\* C13: updateCartItemQuantity with quantity 0 on a product present in the
\* cart succeeds and removes that line: one line fewer, the other lines (and
\* the other users' carts) unchanged.
C13_ZeroQuantityRemovesLine ==
  \A u \in Shoppers, p \in ProductIds :
    LET r == updateCartItemQuantityResult(products, carts, u, p, 0) IN
    InCart(carts, u, p) >= 1 =>
      /\ r.code = 200
      /\ Len(r.carts[u].items) = Len(carts[u].items) - 1
      /\ r.carts[u].items = SelectSeq(carts[u].items, LAMBDA l : l.product # p)
      /\ \A v \in Shoppers \ {u} : r.carts[v] = carts[v]

\* The last line of a cart removed by a quantity-0 update: the cart document
\* stays, with no lines.
C13_Witness ==
  /\ last.op = "updateCartItemQuantity" /\ last.code = 200
  /\ carts[last.user].exists
  /\ Len(carts[last.user].items) = 0

\* --------------------------------------------------- life cycle claims
\* C14: an order whose paymentStatus is paid stays an order whose
\* paymentStatus is paid, whatever handler runs next.
C14_PaidStaysPaid ==
  [][\A o \in 1..Len(orders) :
       orders[o].paymentStatus = "paid" =>
         (o <= Len(orders') /\ orders'[o].paymentStatus = "paid")]_vars

\* The administrator has moved a paid order back to status pending.
C14_Witness ==
  /\ last.op = "updateOrderStatus" /\ last.code = 200
  /\ orders[last.arg].paymentStatus = "paid"
  /\ orders[last.arg].status = "pending"

\* C15: no two orders carry the same non-null paystackReference.
C15_ReferenceUnique ==
  \A i \in 1..Len(orders), j \in 1..Len(orders) :
    (i # j /\ orders[i].paystackReference # NoRef) =>
      orders[i].paystackReference # orders[j].paystackReference

\* A second order that would carry a stored reference has been refused by
\* the index.
C15_Witness ==
  /\ last.op = "createOrder" /\ last.err = "DuplicateKey"
  /\ \E i \in 1..Len(orders) : orders[i].paystackReference = WALLET_PAYMENT

AllowedTransitions ==
  {<<"pending", "completed">>, <<"pending", "cancelled">>, <<"completed", "shipped">>,
   <<"shipped", "delivered">>, <<"completed", "cancelled">>}

\* C16: the status of an order changes only along pending -> completed,
\* pending -> cancelled, completed -> shipped, shipped -> delivered and
\* completed -> cancelled.
C16_StatusTransitions ==
  [][\A o \in 1..Len(orders) :
       orders'[o].status # orders[o].status =>
         <<orders[o].status, orders'[o].status>> \in AllowedTransitions]_vars

\* C17: updateOrderStatus changes an order only for an admin caller and one
\* of the five statuses, and then only the status of the order named; a
\* non-admin caller is answered 403 and an invalid status (on an existing
\* order) 400, the orders unchanged in both cases.
C17_StatusUpdateGuarded ==
  [][\A caller \in {"u1", Admin}, id \in 1..MaxOrders, status \in StatusInputs :
       updateOrderStatus(caller, id, status) =>
         /\ orders' # orders =>
              /\ role[caller] = "admin"
              /\ status \in {"pending", "completed", "shipped", "delivered", "cancelled"}
              /\ orders' = [orders EXCEPT ![id].status = status]
         /\ role[caller] # "admin" => (last'.code = 403 /\ orders' = orders)
         /\ (role[caller] = "admin" /\ id \in 1..Len(orders) /\ status = "bogus")
              => (last'.code = 400 /\ orders' = orders)]_vars

\* An invalid status refused for an existing, paid order.
C17_Witness ==
  /\ last.op = "updateOrderStatus" /\ last.code = 400
  /\ last.arg \in 1..Len(orders)
  /\ orders[last.arg].paymentStatus = "paid"

\* C20: an order created with the gateway method is created pending; an
\* order turns from pending to paid only in a /verify step whose reference
\* the gateway reports successful and whose metadata names that order, and
\* that step sets status completed and stores the reference; a new order is
\* paid only when it was paid from the wallet; and a verification by the
\* paying user of a successful reference for a pending order does set it paid.
C20_PaidOnlyByWalletOrVerify ==
  [][/\ \A o \in 1..Len(orders) :
          (orders[o].paymentStatus = "pending" /\ orders'[o].paymentStatus = "paid") =>
            /\ last'.op = "paystackVerify"
            /\ last'.arg \in 1..Len(gateway)
            /\ gateway[last'.arg].status = "success"
            /\ gateway[last'.arg].order_id = o
            /\ orders'[o].status = "completed"
            /\ orders'[o].paystackReference = last'.arg
     /\ Len(orders') > Len(orders) =>
          LET n == orders'[Len(orders')] IN
          /\ n.paymentMethod # "wallet" =>
               (n.paymentStatus = "pending" /\ n.status = "pending"
                  /\ n.paystackReference = NoRef /\ users' = users)
          /\ n.paymentStatus = "paid" =>
               /\ n.paymentMethod = "wallet"
               /\ users'[n.user].walletBalance = users[n.user].walletBalance - n.totalAmount
     /\ (/\ last'.op = "paystackVerify"
         /\ last'.arg \in 1..Len(gateway)
         /\ gateway[last'.arg].status = "success"
         /\ gateway[last'.arg].user_id = last'.user
         /\ gateway[last'.arg].order_id \in 1..Len(orders)
         /\ orders[gateway[last'.arg].order_id].paymentStatus = "pending")
        => /\ last'.code = 200
           /\ orders'[gateway[last'.arg].order_id].paymentStatus = "paid"
           /\ orders'[gateway[last'.arg].order_id].status = "completed"
           /\ orders'[gateway[last'.arg].order_id].paystackReference = last'.arg]_vars

\* A gateway order paid by its verification, next to nothing else changed.
C20_Witness ==
  /\ last.op = "paystackVerify" /\ last.code = 200
  /\ last.arg \in 1..Len(gateway)
  /\ gateway[last.arg].order_id \in 1..Len(orders)
  /\ orders[gateway[last.arg].order_id].paymentMethod = "paystack"
  /\ orders[gateway[last.arg].order_id].paymentStatus = "paid"
  /\ orders[gateway[last.arg].order_id].paystackReference = last.arg

\* C18: verifyAddFunds with a successful reference whose metadata purpose is
\* not wallet_topup, or whose metadata user id is not the caller's, answers
\* 403 and leaves every wallet balance and processed-reference list unchanged.
C18_TopUpMismatchForbidden ==
  [][(/\ last'.op = "verifyAddFunds"
      /\ last'.arg \in 1..Len(gateway)
      /\ gateway[last'.arg].status = "success"
      /\ (gateway[last'.arg].purpose # "wallet_topup" \/ gateway[last'.arg].userId # last'.user))
     => (last'.code = 403 /\ users' = users)]_vars

\* C19: after a successful order placement the user's cart has no items.
C19_CartClearedAfterOrder ==
  [][(IsCheckout(last'.op) /\ last'.code = 201) => getCart(carts', last'.user) = <<>>]_vars

\* C21: every product's stock is non-negative in every reachable state.
C21_StockNonNegative == \A p \in Products : products[p].stock >= 0

C23_TotalMatchesItems ==
  \A o \in 1..Len(orders) : orders[o].totalAmount = calculateCartTotal(orders[o].items, 1)

\* C24: an order paid through the gateway carries a reference for which the
\* gateway reports an amount of at least the order's totalAmount.
C24_PaidAmountCoversTotal ==
  \A o \in 1..Len(orders) :
    (orders[o].paymentStatus = "paid" /\ orders[o].paystackReference \in 1..Len(gateway)) =>
      fromKobo(gateway[orders[o].paystackReference].amount) >= orders[o].totalAmount


\* C27: a gateway reference serves its own purpose only: verifyAddFunds with
\* the reference of an order payment changes no wallet, whoever calls, and
\* /paystack/verify with the reference of a wallet top-up changes no order;
\* so no wallet lists an order payment and no order carries a top-up.
C27_ReferenceKeepsPurpose ==
  /\ \A u \in Shoppers, ref \in 1..Len(gateway) :
       /\ gateway[ref].purpose # "wallet_topup" =>
            verifyAddFundsResult(users, gateway, u, ref).users = users
       /\ gateway[ref].purpose = "wallet_topup" =>
            paystackVerifyResult(orders, gateway, u, ref).orders = orders
  /\ \A u \in Shoppers : \A i \in 1..Len(users[u].walletTransactions) :
       gateway[users[u].walletTransactions[i]].purpose = "wallet_topup"
  /\ \A o \in 1..Len(orders) :
       orders[o].paystackReference \in 1..Len(gateway) =>
         gateway[orders[o].paystackReference].purpose # "wallet_topup"

\* The payer of an order sends the successful reference of that payment to
\* verifyAddFunds and is refused, while a successful top-up exists as well.
C27_Witness ==
  /\ last.op = "verifyAddFunds" /\ last.code = 401
  /\ last.arg \in 1..Len(gateway)
  /\ gateway[last.arg].purpose = "none" /\ gateway[last.arg].status = "success"
  /\ gateway[last.arg].user_id = last.user
  /\ gateway[last.arg].order_id \in 1..Len(orders)
  /\ \E ref \in 1..Len(gateway) :
       gateway[ref].purpose = "wallet_topup" /\ gateway[ref].status = "success"

RECURSIVE SumCredits(_, _)
SumCredits(gw, refs) ==
  IF refs = {} THEN 0
  ELSE LET r == CHOOSE x \in refs : TRUE
       IN fromKobo(gw[r].amount) + SumCredits(gw, refs \ {r})

\* The references a wallet lists, each once.
CreditedRefs(user) == {user.walletTransactions[i] : i \in 1..Len(user.walletTransactions)}

\* Sum of totalAmount over the first n orders that u paid from the wallet.
RECURSIVE SumWalletOrders(_, _, _)
SumWalletOrders(ords, u, n) ==
  IF n = 0 THEN 0
  ELSE (IF ords[n].user = u /\ ords[n].paystackReference = WALLET_PAYMENT
          THEN ords[n].totalAmount ELSE 0) + SumWalletOrders(ords, u, n - 1)

\* C25: once no request is in flight, the wallet balance of every user is the
\* sum of the top-up amounts credited to it minus the totals of the orders the
\* user paid from the wallet, whatever the interleaving of the requests.
C25_WalletConserved ==
  (\A k \in 1..MaxInflight : reqs[k].pc = "idle") =>
    \A u \in Shoppers :
      users[u].walletBalance =
        SumCredits(gateway, CreditedRefs(users[u])) - SumWalletOrders(orders, u, Len(orders))

\* C26: whatever the interleaving of the verifyAddFunds requests, two of them
\* with the same reference included, a wallet balance never exceeds the sum of
\* the gateway amounts of the references it lists, each counted once.
C26_CreditedAtMostOnce ==
  \A u \in Shoppers :
    users[u].walletBalance <= SumCredits(gateway, CreditedRefs(users[u]))

\* Two requests with the same reference both passed the duplicate check and
\* both saved: the reference is listed twice, the amount was added once.
C26_Witness ==
  \E u \in Shoppers :
    /\ Len(users[u].walletTransactions) = 2
    /\ users[u].walletTransactions[1] = users[u].walletTransactions[2]
    /\ users[u].walletBalance = fromKobo(gateway[users[u].walletTransactions[1]].amount)
    /\ users[u].walletBalance > 0
    /\ \A k \in 1..MaxInflight : reqs[k].pc = "idle"

\* C28: no cart holds two lines of the same product, whatever the sequence
\* and the interleaving of the cart requests of its user.
C28_OneLinePerProduct ==
  \A u \in Shoppers : \A i, j \in 1..Len(carts[u].items) :
    carts[u].items[i].product = carts[u].items[j].product => i = j

\* C30: once the confirmation page that a wallet checkout opened has run, it
\* shows the order as confirmed; it never shows 'no payment reference' for an
\* order that is paid.
C30_WalletCheckoutEndsConfirmed ==
  (/\ client.page = "confirmation" /\ client.confirm # "none"
   /\ client.orderId \in 1..Len(orders)
   /\ orders[client.orderId].paymentMethod = "wallet"
   /\ orders[client.orderId].paymentStatus = "paid")
    => client.confirm = "confirmed"
====
